---- MODULE Spec2Model ----
(***************************************************************************)
(* Model of lib/uploader.py (nodemcu-uploader): the Uploader session over  *)
(* a serial transport.  Text is modelled as sequences of byte values       *)
(* 0..255.  The host program is a sequential process with a program       *)
(* counter (pc) and a return stack; the device on the other end of the     *)
(* serial line is the environment.                                         *)
(***************************************************************************)
EXTENDS Integers, Sequences, FiniteSets, TLC

\* ------------------------------------------------------------------ bounds
\* File lengths are k*128 + e for k in 0..MaxChunks, e in 0..MaxExtra.
MaxChunks == 2
MaxExtra == 1
\* Length of the byte feeds offered to a stand-alone expect call.
MaxFeed == 4
\* Largest timeout (in ticks) passed to a stand-alone expect call.
MaxTimeout == 1
\* Number of requests of one operation that the device answers after the
\* second of the request and within the deadline.
MaxDelays == 1

\* Largest file, in bytes, of an operation in which the device answers so.
MaxDelayedLen == 1

\* Number of requests of one download that a faulty device answers with a
\* size reaching past the request.
MaxGrowth == 2

\* ------------------------------------------------------- program constants
BAUD == 9600
TIMEOUT == 5
\* lt = 0.0001 s: the polling timeout of expect, below one clock tick (1 s).
PollTimeout == 0
UploadChunk == 128
DownloadChunk == 256
ACK == 6
SOH == 1
NUL == 0
SP == 32
LF == 10
CR == 13

\* ------------------------------------------------------------ text literals
\* PROMPT: '> '
PROMPT == <<62, 32>>
\* READY: 'C> '
READY == <<67, 62, 32>>
\* SYNC_CMD: 'print("%sync%");'
SYNC_CMD == <<112, 114, 105, 110, 116, 40, 34, 37, 115, 121, 110, 99, 37, 34, 41, 59>>
\* SYNC_EXP: '%sync%\r\n> '
SYNC_EXP == <<37, 115, 121, 110, 99, 37, 13, 10, 62, 32>>
\* NOP_CMD: ';'
NOP_CMD == <<59>>
\* RECV_CMD: 'recv()'
RECV_CMD == <<114, 101, 99, 118, 40, 41>>
\* UART_A: 'uart.setup(0,'
UART_A == <<117, 97, 114, 116, 46, 115, 101, 116, 117, 112, 40, 48, 44>>
\* UART_B: ',8,0,1,1)'
UART_B == <<44, 56, 44, 48, 44, 49, 44, 49, 41>>
\* DL_A: "file.open('"
DL_A == <<102, 105, 108, 101, 46, 111, 112, 101, 110, 40, 39>>
\* DL_B: "') print(file.seek('end', 0)) file.seek('set', "
DL_B == <<39, 41, 32, 112, 114, 105, 110, 116, 40, 102, 105, 108, 101, 46, 115, 101, 101, 107, 40, 39, 101, 110, 100, 39, 44, 32, 48, 41, 41, 32, 102, 105, 108, 101, 46, 115, 101, 101, 107, 40, 39, 115, 101, 116, 39, 44, 32>>
\* DL_C: ') uart.write(0, file.read('
DL_C == <<41, 32, 117, 97, 114, 116, 46, 119, 114, 105, 116, 101, 40, 48, 44, 32, 102, 105, 108, 101, 46, 114, 101, 97, 100, 40>>
\* DL_D: '))file.close()'
DL_D == <<41, 41, 102, 105, 108, 101, 46, 99, 108, 111, 115, 101, 40, 41>>
\* SHA_A: 'shafile("'
SHA_A == <<115, 104, 97, 102, 105, 108, 101, 40, 34>>
\* SHA_B: '")'
SHA_B == <<34, 41>>
\* LIST_CMD: 'for key,value in pairs(file.list()) do print(key,value) end'
LIST_CMD == <<102, 111, 114, 32, 107, 101, 121, 44, 118, 97, 108, 117, 101, 32, 105, 110, 32, 112, 97, 105, 114, 115, 40, 102, 105, 108, 101, 46, 108, 105, 115, 116, 40, 41, 41, 32, 100, 111, 32, 112, 114, 105, 110, 116, 40, 107, 101, 121, 44, 118, 97, 108, 117, 101, 41, 32, 101, 110, 100>>
\* REMOVE_A: 'file.remove("'
REMOVE_A == <<102, 105, 108, 101, 46, 114, 101, 109, 111, 118, 101, 40, 34>>
\* REMOVE_B: '")'
REMOVE_B == <<34, 41>>
\* FORMAT_CMD: 'file.format()'
FORMAT_CMD == <<102, 105, 108, 101, 46, 102, 111, 114, 109, 97, 116, 40, 41>>
\* FORMAT_DONE: 'format done'
FORMAT_DONE == <<102, 111, 114, 109, 97, 116, 32, 100, 111, 110, 101>>

\* DO_A: 'dofile("'
DO_A == <<100, 111, 102, 105, 108, 101, 40, 34>>
\* DO_B: '")'
DO_B == <<34, 41>>
\* HEAP_CMD: 'print(node.heap())'
HEAP_CMD == <<112, 114, 105, 110, 116, 40, 110, 111, 100, 101, 46, 104, 101, 97, 112, 40, 41, 41>>
\* RESTART_CMD: 'node.restart()'
RESTART_CMD == <<110, 111, 100, 101, 46, 114, 101, 115, 116, 97, 114, 116, 40, 41>>
\* COMPILE_A: 'node.compile("'
COMPILE_A == <<110, 111, 100, 101, 46, 99, 111, 109, 112, 105, 108, 101, 40, 34>>
\* COMPILE_B: '")'
COMPILE_B == <<34, 41>>
\* UNEXPECTED: 'unexpected'
UNEXPECTED == <<117, 110, 101, 120, 112, 101, 99, 116, 101, 100>>
\* DEFAULT_RATE: '9600'
DEFAULT_RATE == <<57, 54, 48, 48>>
\* SAVE_LUA: the Lua source of the device-side receiver (lib/luacode.py).  This
\* text stands in for it: a few lines with an indented line, ', ', ' = ', an
\* empty line, \r\n line ends and the default rate.
\* 'function r()\r\n  uart.setup(0, 9600, 8, 0, 1, 1)\r\n\r\n  local a = 1\r\nend\r\n'
SAVE_LUA ==
  <<102, 117, 110, 99, 116, 105, 111, 110, 32, 114, 40, 41, 13, 10,
    32, 32, 117, 97, 114, 116, 46, 115, 101, 116, 117, 112, 40, 48, 44, 32, 57, 54, 48, 48, 44, 32, 56, 44, 32, 48, 44, 32, 49, 44, 32, 49, 41, 13, 10,
    13, 10,
    32, 32, 108, 111, 99, 97, 108, 32, 97, 32, 61, 32, 49, 13, 10,
    101, 110, 100, 13, 10>>
\* ------------------------------------------------------------ text helpers
Min(a, b) == IF a < b THEN a ELSE b
Max(a, b) == IF a > b THEN a ELSE b

\* str.endswith
EndsWith(s, t) ==
  /\ Len(t) <= Len(s)
  /\ SubSeq(s, Len(s) - Len(t) + 1, Len(s)) = t

\* t in s (substring test)
Contains(s, t) ==
  \E i \in 0..(Len(s) - Len(t)) : SubSeq(s, i + 1, i + Len(t)) = t

\* Python slice s[a:b] with the usual clamping of negative and large indices.
PyIndex(i, n) == IF i < 0 THEN Max(i + n, 0) ELSE Min(i, n)
PySlice(s, a, b) == SubSeq(s, PyIndex(a, Len(s)) + 1, PyIndex(b, Len(s)))

\* The least member of a non-empty set of integers.
Least(S) == CHOOSE i \in S : \A j \in S : i <= j

\* Index of the first byte of s at or after position from (1-based) that is
\* in the set cs, 0 if there is none.
FindByte(s, cs, from) ==
  LET hits == {i \in from..Len(s) : s[i] \in cs}
  IN IF hits = {} THEN 0 ELSE Least(hits)

\* d.split('\n', 2): at most two splits, so one to three components.
Split2(d) ==
  LET i == FindByte(d, {LF}, 1) IN
  IF i = 0 THEN <<d>>
  ELSE LET j == FindByte(d, {LF}, i + 1) IN
       IF j = 0 THEN <<SubSeq(d, 1, i - 1), SubSeq(d, i + 1, Len(d))>>
       ELSE <<SubSeq(d, 1, i - 1), SubSeq(d, i + 1, j - 1), SubSeq(d, j + 1, Len(d))>>

\* str.splitlines(): breaks at \n, \r and \r\n; no empty last line.
SplitLines(s) ==
  LET B == {k \in 1..Len(s) : s[k] = CR \/ (s[k] = LF /\ (k = 1 \/ s[k - 1] # CR))}
      n == Cardinality(B)
      Brk(j) == CHOOSE k \in B : Cardinality({m \in B : m <= k}) = j
      After(k) == IF s[k] = CR /\ k < Len(s) /\ s[k + 1] = LF THEN k + 2 ELSE k + 1
      From(j) == IF j = 1 THEN 1 ELSE After(Brk(j - 1))
      whole == [j \in 1..n |-> SubSeq(s, From(j), Brk(j) - 1)]
  IN IF From(n + 1) > Len(s) THEN whole
     ELSE Append(whole, SubSeq(s, From(n + 1), Len(s)))

\* '%d' % n and '%s' % n for a non-negative integer n.
RECURSIVE ToDec(_)
ToDec(n) == IF n < 10 THEN <<48 + n>> ELSE ToDec(n \div 10) \o <<48 + (n % 10)>>

\* int(s): surrounding whitespace is stripped, one sign is allowed, whitespace
\* between the sign and the digits is skipped, the rest must be one or more
\* decimal digits; anything else raises ValueError.
IsSpace(c) == c \in {9, 10, 11, 12, 13, 32}
IsDigit(c) == c \in 48..57
RECURSIVE Strip(_)
Strip(s) ==
  IF s = <<>> THEN s
  ELSE IF IsSpace(s[1]) THEN Strip(Tail(s))
  ELSE IF IsSpace(s[Len(s)]) THEN Strip(SubSeq(s, 1, Len(s) - 1))
  ELSE s
RECURSIVE DigitsValue(_)
DigitsValue(s) ==
  IF s = <<>> THEN 0 ELSE 10 * DigitsValue(SubSeq(s, 1, Len(s) - 1)) + (s[Len(s)] - 48)
ParseInt(s) ==
  LET t == Strip(s)
      signed == t # <<>> /\ t[1] \in {43, 45}
      digits == IF signed THEN Strip(Tail(t)) ELSE t
  IN IF digits # <<>> /\ \A i \in 1..Len(digits) : IsDigit(digits[i])
     THEN [ok |-> TRUE,
           val |-> IF signed /\ t[1] = 45 THEN 0 - DigitsValue(digits) ELSE DigitsValue(digits)]
     ELSE [ok |-> FALSE, val |-> 0]

\* str.encode() of a Python 2 byte string decodes it as ASCII first: it
\* succeeds only when every byte is below 128.
IsAscii(s) == \A i \in 1..Len(s) : s[i] < 128

\* ------------------------------------------------------------- file contents
\* A file of n lower-case letters with no period of 256.
Gen(n) == [i \in 1..n |-> 97 + ((i * i) % 23)]
\* 'a> b': the prompt string inside the content.
PromptIn == <<97, 62, 32, 98>>
\* 'h\xe9': a byte outside ASCII.
HighByte == <<104, 233>>
\* 'a\n>b c': newline, '>' and ' ' with no prompt string.
Newlines == <<97, 10, 62, 98, 32, 99>>
\* 'ab  ': content ending in spaces.
TrailSp == <<97, 98, 32, 32>>
Lengths == {k * UploadChunk + e : k \in 0..MaxChunks, e \in 0..MaxExtra}
Contents == {Gen(n) : n \in Lengths} \cup {PromptIn, HighByte, Newlines, TrailSp}
\* What a faulty device stores instead of c: the first byte replaced by 'X'.
Corrupt(c) == IF c = <<>> THEN c ELSE <<88>> \o Tail(c)

\* hashlib.sha1(c).hexdigest() for the contents of the model, tabulated.

\* s.replace(old, new) for a non-empty old: the occurrences of old are
\* replaced from left to right, none overlapping another.
RECURSIVE ReplaceFrom(_, _, _, _)
ReplaceFrom(s, old, new, i) ==
  LET hits == {m \in i..(Len(s) - Len(old) + 1) : SubSeq(s, m, m + Len(old) - 1) = old}
  IN IF hits = {} THEN SubSeq(s, i, Len(s))
     ELSE SubSeq(s, i, Least(hits) - 1) \o new
            \o ReplaceFrom(s, old, new, Least(hits) + Len(old))
Replace(s, old, new) == ReplaceFrom(s, old, new, 1)

\* s.split(c) for a single byte c: every occurrence separates two components.
SplitOn(s, c) ==
  LET P == {i \in 1..Len(s) : s[i] = c}
      n == Cardinality(P)
      Cut(k) == CHOOSE i \in P : Cardinality({j \in P : j <= i}) = k
  IN [k \in 1..(n + 1) |->
        SubSeq(s, IF k = 1 THEN 1 ELSE Cut(k - 1) + 1,
                  IF k = n + 1 THEN Len(s) ELSE Cut(k) - 1)]

\* s.rstrip('\r\n'): trailing \r and \n bytes are dropped.
RStripCRLF(s) ==
  LET keep == {i \in 1..Len(s) : s[i] \notin {CR, LF}}
  IN IF keep = {} THEN <<>>
     ELSE SubSeq(s, 1, CHOOSE i \in keep : \A j \in keep : j <= i)

\* The lines a loop over an open text file yields, each without its line end
\* (line.rstrip('\r\n')): the file is cut after every \n.
FileLines(content) ==
  LET parts == SplitOn(content, LF)
      whole == IF parts[Len(parts)] = <<>> THEN SubSeq(parts, 1, Len(parts) - 1) ELSE parts
  IN [k \in 1..Len(whole) |-> RStripCRLF(whole[k])]
Sha1Hex(c) ==
  CASE c = Gen(0) -> <<100, 97, 51, 57, 97, 51, 101, 101, 53, 101, 54, 98, 52, 98, 48, 100, 51, 50, 53, 53, 98, 102, 101, 102, 57, 53, 54, 48, 49, 56, 57, 48, 97, 102, 100, 56, 48, 55, 48, 57>>
    [] c = Gen(1) -> <<101, 57, 100, 55, 49, 102, 53, 101, 101, 55, 99, 57, 50, 100, 54, 100, 99, 57, 101, 57, 50, 102, 102, 100, 97, 100, 49, 55, 98, 56, 98, 100, 52, 57, 52, 49, 56, 102, 57, 56>>
    [] c = Corrupt(Gen(1)) -> <<99, 48, 51, 50, 97, 100, 99, 49, 102, 102, 54, 50, 57, 99, 57, 98, 54, 54, 102, 50, 50, 55, 52, 57, 97, 100, 54, 54, 55, 101, 54, 98, 101, 97, 100, 102, 49, 52, 52, 98>>
    [] c = Gen(2) -> <<57, 56, 54, 98, 49, 98, 99, 49, 101, 98, 56, 100, 101, 56, 57, 54, 52, 51, 99, 53, 48, 55, 50, 50, 57, 49, 48, 102, 57, 57, 48, 48, 49, 99, 50, 51, 50, 56, 54, 53>>
    [] c = Corrupt(Gen(2)) -> <<57, 101, 53, 101, 57, 51, 49, 102, 51, 51, 98, 99, 53, 97, 56, 99, 54, 48, 54, 57, 49, 101, 98, 55, 52, 53, 57, 54, 56, 97, 57, 98, 49, 57, 57, 99, 56, 52, 50, 56>>
    [] c = Gen(128) -> <<100, 100, 57, 52, 48, 55, 50, 55, 98, 54, 97, 53, 51, 56, 54, 48, 57, 99, 98, 97, 100, 100, 56, 98, 57, 100, 98, 55, 51, 51, 56, 101, 55, 50, 57, 48, 54, 102, 53, 100>>
    [] c = Corrupt(Gen(128)) -> <<98, 98, 57, 50, 54, 51, 100, 97, 48, 101, 97, 101, 54, 101, 49, 100, 99, 97, 99, 101, 48, 55, 99, 98, 50, 98, 50, 50, 49, 53, 100, 98, 99, 54, 54, 99, 53, 102, 101, 57>>
    [] c = Gen(129) -> <<102, 52, 52, 50, 51, 48, 51, 102, 48, 49, 99, 51, 97, 55, 54, 52, 49, 52, 48, 56, 56, 49, 50, 100, 52, 52, 53, 52, 98, 57, 56, 49, 53, 101, 51, 49, 98, 51, 100, 100>>
    [] c = Corrupt(Gen(129)) -> <<48, 56, 53, 99, 98, 102, 99, 56, 57, 50, 53, 98, 57, 52, 99, 101, 98, 97, 97, 50, 97, 53, 49, 48, 52, 56, 102, 51, 53, 101, 55, 51, 50, 55, 97, 100, 55, 56, 52, 51>>
    [] c = Gen(130) -> <<55, 57, 98, 97, 97, 56, 55, 55, 54, 57, 54, 53, 48, 53, 53, 57, 57, 51, 52, 100, 53, 57, 102, 57, 52, 99, 100, 100, 57, 102, 54, 56, 98, 56, 53, 49, 51, 53, 50, 49>>
    [] c = Corrupt(Gen(130)) -> <<51, 100, 54, 101, 57, 102, 100, 55, 53, 57, 102, 55, 57, 99, 50, 56, 55, 53, 53, 98, 98, 101, 51, 98, 101, 49, 102, 99, 57, 52, 55, 50, 99, 48, 56, 55, 102, 98, 55, 102>>
    [] c = Gen(256) -> <<97, 98, 52, 53, 56, 49, 99, 57, 51, 52, 48, 56, 52, 54, 102, 97, 54, 49, 52, 102, 97, 48, 51, 99, 49, 101, 49, 57, 99, 53, 53, 57, 55, 51, 102, 53, 52, 50, 54, 50>>
    [] c = Corrupt(Gen(256)) -> <<101, 53, 49, 54, 52, 50, 102, 55, 49, 100, 51, 54, 50, 102, 100, 56, 102, 98, 56, 49, 99, 54, 50, 97, 52, 53, 49, 54, 100, 102, 97, 48, 53, 56, 48, 102, 100, 50, 52, 97>>
    [] c = Gen(257) -> <<102, 57, 51, 51, 54, 55, 97, 102, 50, 99, 99, 52, 97, 51, 56, 54, 48, 102, 101, 55, 99, 102, 50, 51, 55, 100, 54, 56, 56, 55, 50, 48, 57, 56, 55, 54, 50, 51, 51, 101>>
    [] c = Corrupt(Gen(257)) -> <<98, 101, 54, 101, 101, 56, 99, 99, 101, 98, 101, 101, 55, 97, 55, 49, 55, 56, 55, 55, 100, 100, 53, 49, 50, 49, 48, 102, 56, 98, 48, 56, 49, 51, 98, 55, 51, 48, 102, 100>>
    [] c = Gen(258) -> <<102, 53, 102, 101, 99, 48, 49, 57, 101, 102, 49, 57, 100, 102, 53, 56, 57, 48, 98, 49, 102, 48, 102, 54, 53, 97, 53, 99, 100, 54, 51, 50, 97, 50, 50, 53, 54, 51, 49, 55>>
    [] c = Corrupt(Gen(258)) -> <<50, 101, 48, 98, 56, 100, 51, 50, 56, 99, 50, 100, 98, 48, 97, 51, 53, 49, 102, 49, 52, 50, 49, 57, 49, 54, 56, 98, 50, 54, 98, 50, 97, 51, 54, 98, 49, 49, 52, 98>>
    [] c = Gen(384) -> <<52, 52, 99, 57, 52, 50, 100, 57, 52, 51, 49, 99, 52, 53, 54, 101, 50, 50, 56, 98, 53, 50, 55, 98, 101, 51, 97, 56, 57, 56, 51, 97, 57, 99, 100, 50, 48, 101, 56, 53>>
    [] c = Corrupt(Gen(384)) -> <<53, 55, 101, 54, 98, 51, 50, 98, 102, 97, 57, 53, 49, 101, 49, 50, 57, 102, 54, 49, 53, 100, 100, 51, 102, 102, 57, 56, 52, 56, 51, 97, 97, 55, 53, 98, 54, 102, 57, 50>>
    [] c = Gen(385) -> <<56, 53, 57, 52, 57, 101, 55, 100, 51, 100, 53, 102, 49, 102, 48, 100, 98, 102, 53, 54, 48, 101, 99, 51, 50, 102, 56, 102, 97, 101, 54, 98, 97, 49, 51, 99, 57, 48, 100, 97>>
    [] c = Corrupt(Gen(385)) -> <<56, 49, 50, 51, 52, 48, 57, 52, 50, 57, 97, 49, 57, 54, 102, 57, 100, 55, 51, 53, 55, 102, 50, 53, 56, 54, 53, 54, 49, 56, 48, 48, 48, 99, 101, 101, 54, 98, 49, 50>>
    [] c = Gen(386) -> <<52, 49, 56, 49, 98, 101, 49, 100, 55, 50, 102, 57, 55, 48, 97, 98, 51, 57, 101, 57, 98, 52, 101, 99, 51, 97, 99, 49, 50, 49, 48, 98, 100, 51, 57, 97, 99, 100, 50, 49>>
    [] c = Corrupt(Gen(386)) -> <<53, 101, 98, 98, 99, 53, 56, 100, 56, 53, 53, 49, 54, 57, 100, 53, 50, 55, 50, 100, 100, 57, 99, 51, 48, 99, 99, 55, 102, 101, 52, 54, 56, 102, 49, 56, 102, 101, 51, 97>>
    [] c = PromptIn -> <<100, 54, 51, 53, 55, 51, 98, 97, 53, 50, 57, 56, 51, 50, 51, 54, 53, 100, 52, 54, 51, 55, 50, 101, 51, 51, 55, 102, 50, 48, 98, 51, 99, 52, 53, 97, 98, 54, 54, 49>>
    [] c = Corrupt(PromptIn) -> <<99, 48, 54, 55, 56, 54, 56, 56, 55, 56, 52, 51, 98, 55, 100, 54, 51, 101, 102, 51, 57, 52, 48, 100, 57, 99, 97, 50, 54, 48, 102, 55, 48, 97, 101, 56, 55, 99, 56, 53>>
    [] c = HighByte -> <<100, 57, 57, 56, 52, 49, 57, 99, 48, 53, 101, 97, 97, 57, 101, 57, 55, 49, 53, 54, 55, 48, 52, 48, 101, 50, 100, 49, 56, 97, 99, 101, 49, 101, 52, 55, 100, 102, 48, 55>>
    [] c = Corrupt(HighByte) -> <<49, 56, 52, 102, 99, 48, 51, 49, 57, 53, 99, 101, 99, 101, 51, 97, 56, 55, 101, 53, 102, 102, 57, 99, 101, 49, 97, 100, 57, 53, 51, 56, 57, 52, 51, 98, 56, 57, 101, 102>>
    [] c = Newlines -> <<51, 99, 49, 97, 101, 57, 49, 51, 102, 56, 99, 102, 99, 48, 100, 48, 51, 55, 50, 100, 57, 54, 98, 57, 54, 49, 101, 52, 53, 56, 100, 55, 55, 55, 51, 56, 102, 50, 50, 98>>
    [] c = Corrupt(Newlines) -> <<48, 51, 102, 102, 49, 100, 54, 50, 52, 55, 100, 52, 55, 99, 50, 100, 52, 100, 98, 48, 102, 97, 57, 101, 53, 57, 99, 51, 50, 100, 51, 100, 54, 100, 48, 54, 55, 97, 53, 51>>
    [] c = TrailSp -> <<57, 53, 49, 51, 51, 52, 98, 55, 98, 51, 53, 99, 100, 100, 102, 53, 98, 51, 52, 98, 51, 51, 101, 101, 98, 101, 54, 54, 49, 51, 100, 52, 53, 48, 53, 48, 49, 102, 48, 49>>
    [] c = Corrupt(TrailSp) -> <<97, 99, 97, 48, 53, 52, 101, 51, 101, 102, 99, 56, 54, 57, 57, 99, 56, 100, 52, 53, 56, 53, 54, 101, 97, 51, 55, 50, 50, 97, 50, 102, 55, 56, 50, 50, 98, 101, 50, 56>>
    [] OTHER -> <<>>

\* ---------------------------------------------------------------- state
VARIABLES
  pc,          \* the host's position in the program
  stack,       \* positions to return to, innermost call first
  op,          \* the operation under way and its arguments
  port,        \* the serial.Serial object self._port
  now,         \* time.time(), in whole seconds
  late,        \* whether, within the second now, the clock has passed the
               \* instant of the second at which expect fixed its deadline
  exp, tmo,    \* expect: its arguments
  endt, timer, \* expect: locals end and timer
  data,        \* expect: the accumulator
  res,         \* the value the last expect call returned
  ack,         \* got_ack: the bytes port.read(1) returned
  ackEnd,      \* got_ack: when the blocking read gives up
  pos,         \* write_file: local pos
  lines_left,  \* prepare, exec_file, write_lines: the lines still to send
  last,        \* exec_file: local res, the last line of the output so far
  bytes_read,  \* download_file: local bytes_read
  dl_data,     \* download_file: local data
  dl_resp,     \* download_file: every response d it received, oldest first
  retval,      \* the value download_file or an admin call returned, if any
  errors,      \* the log.error calls made, oldest first
  raised,      \* the exception that ended the operation, or "none"
  localfile,   \* read_file: the destination file on the host
  line_number, \* self.line_number, -1 while unset
  rx,          \* bytes the device has sent and the host has not read
  wire,        \* what the host has written and the device has not acted on
  dev,         \* the device: its stored file and its line ending
  feed,        \* bytes the device is about to send unasked, one at a time
  fedAt,       \* when each byte of the feed was sent (the second, and whether
               \* past the instant of late), oldest first
  faithful,    \* whether the device has so far answered at once and correctly
  ev,          \* every transport call of the host, oldest first
  rxlog        \* every byte the host has read, oldest first

G_expect == <<exp, tmo, endt, timer, data, res>>
G_ack == <<ack, ackEnd>>
G_lines == <<lines_left, last>>
G_dl == <<bytes_read, dl_data, dl_resp, retval>>
G_out == <<errors, raised, localfile, line_number>>
G_env == <<rx, wire, dev, feed, fedAt, faithful>>
vars == <<pc, stack, op, port, now, late, G_expect, G_ack, pos, G_lines, G_dl, G_out, G_env, ev, rxlog>>

\* A transport call: its kind, for a write what was written (tag), the bytes
\* written or read, and a number (a baud rate, an offset; for an expect
\* whether the target was matched).
Ev(k, tag, b, n) == [k |-> k, tag |-> tag, b |-> b, n |-> n]

\* ------------------------------------------------------ transport calls
\* write(output): self._port.write(output); self._port.flush()
\* (pre: the transport calls the same step made just before the write.)
WriteAfter(pre, tag, output, n) ==
  /\ ev' = ev \o pre \o <<Ev("write", tag, output, n)>>
  /\ wire' = Append(wire, [k |-> tag, b |-> output, n |-> n, t |-> now])
Write(tag, output, n) == WriteAfter(<<>>, tag, output, n)

\* writeln(output): write(output + '\n')
Writeln(tag, output, n) == Write(tag, output \o <<LF>>, n)

\* A call of expect(e, t) that returns to position r.
CallExpect(e, t, r) ==
  /\ exp' = e
  /\ tmo' = t
  /\ pc' = "expect"
  /\ stack' = <<r>> \o stack

\* A call of got_ack() that returns to position r: port.read(1) blocks for
\* at most the transport's read timeout.
CallAck(r) ==
  /\ pc' = "got_ack"
  /\ stack' = <<r>> \o stack
  /\ ackEnd' = now + port.timeout

\* The operation ends, normally or by an exception that nothing catches.
Finish ==
  /\ pc' = "done"
  /\ stack' = <<>>

\* ----------------------------------------------------------------- expect
\* expect, lines 61-71: save the read timeout, set the polling timeout, fix
\* the deadline, start with an empty accumulator.
expect_enter ==
  /\ pc = "expect"
  /\ timer' = port.timeout
  /\ port' = [port EXCEPT !.timeout = PollTimeout]
  /\ endt' = now + tmo
  /\ late' = FALSE
  /\ data' = <<>>
  /\ pc' = "expect_loop"
  /\ UNCHANGED <<stack, op, G_lines, now, exp, tmo, res, G_ack, pos, G_dl, G_out, G_env, ev, rxlog>>

\* time.time() <= end (line 72): the deadline lies endt - now whole seconds
\* ahead, or in this second and the clock has not passed it.
InTime == now < endt \/ (now = endt /\ ~late)
\* The loop condition of line 72.
ExpectLoopCond == ~EndsWith(data, exp) /\ InTime

\* Line 72 with the condition true: the loop goes on to the read.
expect_check ==
  /\ pc = "expect_loop"
  /\ ExpectLoopCond
  /\ pc' = "expect_read"
  /\ UNCHANGED <<stack, op, G_lines, port, now, late, G_expect, G_ack, pos, G_dl, G_out, G_env, ev, rxlog>>

\* Line 73: data += self._port.read().  The read returns the byte that is
\* waiting or that comes while it waits, or '' when the polling timeout ends
\* with none; the clock is not read again before line 72.
expect_read ==
  /\ pc = "expect_read"
  /\ IF rx # <<>>
     THEN /\ data' = Append(data, Head(rx))
          /\ rx' = Tail(rx)
          /\ rxlog' = Append(rxlog, Head(rx))
     ELSE UNCHANGED <<data, rx, rxlog>>
  /\ pc' = "expect_loop"
  /\ UNCHANGED <<stack, op, G_lines, port, now, late, exp, tmo, endt, timer, res, G_ack, pos, G_dl,
                 G_out, wire, dev, feed, fedAt, faithful, ev>>

\* (A result without the matched target.)
ExpectResult_cut == IF EndsWith(data, exp) THEN SubSeq(data, 1, Len(data) - Len(exp)) ELSE data
\* What expect hands back (line 77).
ExpectResult == data

\* (The polling timeout left in force.)
RestoredTimeout_poll == PollTimeout
\* The read timeout expect leaves behind (line 75).
RestoredTimeout == timer

\* expect, lines 75-77: the loop is over; restore the timeout, return data.
expect_return ==
  /\ pc = "expect_loop"
  /\ ~ExpectLoopCond
  /\ port' = [port EXCEPT !.timeout = RestoredTimeout]
  /\ res' = ExpectResult
  /\ ev' = Append(ev, Ev("expect", "", ExpectResult, IF EndsWith(data, exp) THEN 1 ELSE 0))
  /\ pc' = Head(stack)
  /\ stack' = Tail(stack)
  /\ UNCHANGED <<op, G_lines, now, late, exp, tmo, endt, timer, data, G_ack, pos, G_dl, G_out, G_env, rxlog>>

\* ---------------------------------------------------------------- got_ack
\* (A read that blocks until a byte arrives.)
\* self._port.read(1) (line 217) returns with a byte, or with none when the
\* transport's read timeout has passed.
AckReadOver == rx # <<>> \/ now >= ackEnd

\* got_ack, lines 215-219: res = self._port.read(1), one byte or, when the
\* read timeout passes first, none.
got_ack ==
  /\ pc = "got_ack"
  /\ AckReadOver
  /\ LET r == IF rx # <<>> THEN <<Head(rx)>> ELSE <<>> IN
       /\ ack' = r
       /\ rx' = IF rx # <<>> THEN Tail(rx) ELSE rx
       /\ rxlog' = rxlog \o r
       /\ ev' = Append(ev, Ev("ack", "", r, 0))
  /\ pc' = Head(stack)
  /\ stack' = Tail(stack)
  /\ UNCHANGED <<op, G_lines, port, now, late, G_expect, ackEnd, pos, G_dl, G_out, wire, dev, feed, fedAt, faithful>>

\* return res == '\x06' (line 219)
GotAck == ack = <<ACK>>

\* ------------------------------------------------------------------- time
\* The host is polling or waiting in a read with nothing to read, and the
\* read's deadline is a second or more ahead.
HostBlocked ==
  \/ pc \in {"expect_loop", "expect_read"} /\ ~EndsWith(data, exp) /\ now < endt /\ rx = <<>>
  \/ pc = "got_ack" /\ rx = <<>> /\ now < ackEnd

\* A second passes while the host waits.  A device with a request or output
\* still pending has by then not answered at once.
Tick ==
  /\ HostBlocked
  /\ now' = now + 1
  /\ late' = FALSE
  /\ faithful' = (faithful /\ wire = <<>> /\ feed = <<>>)
  /\ UNCHANGED <<pc, stack, op, G_lines, port, G_expect, G_ack, pos, G_dl, G_out, rx, wire, dev, feed, fedAt,
                 ev, rxlog>>

\* Within the second of expect's deadline the clock passes the deadline: at any
\* point after line 68, before a check of line 72 or while the read of line 73
\* waits, bytes waiting or not.
Moment ==
  /\ pc \in {"expect_loop", "expect_read"}
  /\ now = endt
  /\ ~late
  /\ late' = TRUE
  /\ UNCHANGED <<pc, stack, op, G_lines, port, now, G_expect, G_ack, pos, G_dl, G_out, G_env, ev, rxlog>>
\* ------------------------------------------------------------- the device
\* The device echoes a command line with its own line ending.
Echo(req) == SubSeq(req.b, 1, Len(req.b) - 1) \o dev.eol

\* The payload of an upload frame, cut to its length byte.
FramePayload(b) == SubSeq(b, 3, 2 + b[2])

\* A one-line error message followed by the prompt.
ErrorText == <<69>> \o dev.eol \o PROMPT

\* The hex digest h with its k-th character changed.
Alter(h, k) == [h EXCEPT ![k] = IF h[k] = 48 THEN 49 ELSE 48]

Reply(out, remote, ok) == [out |-> out, remote |-> remote, ok |-> ok]

\* The answer of a device that works as the host expects.
FaithfulReply(req) ==
  CASE req.k \in {"nop", "empty", "file_remove", "file_do", "node_heap", "node_restart",
                  "file_compile", "line"} ->
         Reply(Echo(req) \o PROMPT, dev.remote, TRUE)
    [] req.k = "sync" ->
         Reply(Echo(req) \o SYNC_EXP, dev.remote, TRUE)
    [] req.k = "uart" ->
         Reply(<<>>, dev.remote, TRUE)
    [] req.k = "recv" ->
         Reply(Echo(req) \o READY, dev.remote, TRUE)
    [] req.k = "name" ->
         Reply(<<ACK>>, <<>>, TRUE)
    [] req.k = "chunk" ->
         Reply(<<ACK>>, dev.remote \o FramePayload(req.b), TRUE)
    [] req.k = "download" ->
         Reply(Echo(req) \o ToDec(Len(dev.remote)) \o dev.eol
                 \o SubSeq(dev.remote, req.n + 1, Min(req.n + DownloadChunk, Len(dev.remote)))
                 \o PROMPT,
               dev.remote, TRUE)
    [] req.k = "sha" ->
         Reply(Echo(req) \o Sha1Hex(dev.remote) \o dev.eol \o PROMPT, dev.remote, TRUE)
    [] req.k = "file_list" ->
         Reply(Echo(req) \o ToDec(Len(dev.remote)) \o dev.eol \o PROMPT, dev.remote, TRUE)
    [] req.k = "file_format" ->
         Reply(Echo(req) \o FORMAT_DONE \o dev.eol \o PROMPT, <<>>, TRUE)

\* The answers of a device that fails: it stays silent, reports an error,
\* refuses a frame, stores a frame wrongly, or answers with the wrong data; to
\* a download request it may report a size that reaches just past the request;
\* to a line it may answer with an error, with an empty line and no prompt, or
\* with a long text.
FaultyReplies(req) ==
  (IF req.k = "uart" THEN {} ELSE {Reply(<<>>, dev.remote, FALSE)})
  \cup
  (CASE req.k = "sync" ->
         {Reply(Echo(req) \o SubSeq(SYNC_EXP, 1, Len(SYNC_EXP) - Len(PROMPT)), dev.remote, FALSE)}
    [] req.k = "recv" ->
         {Reply(ErrorText, dev.remote, FALSE)}
    [] req.k = "name" ->
         {Reply(<<21>>, dev.remote, FALSE), Reply(<<21>> \o ErrorText, dev.remote, FALSE)}
    [] req.k = "chunk" ->
         {Reply(<<21>> \o ErrorText, dev.remote, FALSE)}
         \cup (IF dev.remote = <<>> /\ req.b[2] > 0
               THEN {Reply(<<ACK>>, Corrupt(FramePayload(req.b)), FALSE)} ELSE {})
    [] req.k = "download" ->
         {Reply(ErrorText, dev.remote, FALSE),
          Reply(Echo(req) \o <<110, 105, 108>> \o dev.eol \o PROMPT, dev.remote, FALSE),
          Reply(Echo(req) \o ToDec(Len(dev.remote)) \o dev.eol \o dev.remote \o PROMPT,
                dev.remote, FALSE)}
         \cup (IF req.n < MaxGrowth * DownloadChunk
               THEN {Reply(Echo(req) \o ToDec(req.n + DownloadChunk) \o dev.eol \o PROMPT,
                           dev.remote, FALSE)}
               ELSE {})
    [] req.k = "line" ->
         {Reply(Echo(req) \o UNEXPECTED \o dev.eol \o PROMPT, dev.remote, FALSE),
          Reply(Echo(req) \o dev.eol, dev.remote, FALSE),
          Reply(Echo(req) \o SAVE_LUA \o FORMAT_DONE \o PROMPT, dev.remote, FALSE)}
    [] req.k = "sha" ->
         {Reply(Echo(req) \o Alter(Sha1Hex(dev.remote), k) \o dev.eol \o PROMPT, dev.remote, FALSE)
            : k \in {1, Len(Sha1Hex(dev.remote))} \ {0}}
    [] OTHER -> {})

\* The device may answer after the second of the request and within the
\* deadline of the wait that follows it: up to MaxDelays times in one
\* operation, in operations on files of up to MaxDelayedLen bytes.
MayDelay ==
  /\ dev.delays < MaxDelays
  /\ Len(op.content) <= MaxDelayedLen
  /\ Len(dev.remote) <= MaxDelayedLen

\* The device answers in the second of the request, faithfully or not, or in
\* a later one: within the deadline of the wait that follows the request, or
\* when that deadline has gone by.
Replies(req) ==
  IF now = req.t THEN {FaithfulReply(req)} \cup FaultyReplies(req)
  ELSE IF now <= req.t + TIMEOUT
       THEN IF MayDelay THEN {FaithfulReply(req)} ELSE {}
  ELSE {FaithfulReply(req)}

\* An answer to req that comes now comes before the deadline of the wait that
\* follows the request: a second or more ahead of it, or in its second while
\* that wait is still in time.
Timely(req) ==
  \/ now < req.t + TIMEOUT
  \/ now = req.t + TIMEOUT /\ endt = req.t + TIMEOUT /\ ~late

\* dev.answers keeps, for every request the device has answered, whether the
\* answer was the faithful one and came at once (ok), whether it was the
\* faithful one (right) and whether it came before the deadline (timely).
DevReply ==
  /\ wire # <<>>
  /\ \E r \in Replies(Head(wire)) :
       /\ rx' = rx \o r.out
       /\ dev' = [dev EXCEPT !.remote = r.remote,
                             !.delays = IF Head(wire).t < now /\ now <= Head(wire).t + TIMEOUT
                                        THEN @ + 1 ELSE @,
                             !.answers = Append(@, [k |-> Head(wire).k,
                                                    ok |-> r.ok /\ now = Head(wire).t,
                                                    right |-> r.ok,
                                                    timely |-> Timely(Head(wire))])]
       /\ faithful' = (faithful /\ r.ok /\ now = Head(wire).t)
  /\ wire' = Tail(wire)
  /\ UNCHANGED <<pc, stack, op, G_lines, port, now, late, G_expect, G_ack, pos, G_dl, G_out, feed, fedAt, ev, rxlog>>

\* The device sends the next byte of its unasked output.
Feed ==
  /\ feed # <<>>
  /\ rx' = Append(rx, Head(feed))
  /\ feed' = Tail(feed)
  /\ fedAt' = Append(fedAt, [t |-> now, late |-> late])
  /\ UNCHANGED <<pc, stack, op, G_lines, port, now, late, G_expect, G_ack, pos, G_dl, G_out, wire, dev,
                 faithful, ev, rxlog>>

\* -------------------------------------------------------------- write_file
\* destination: os.path.basename(path), here 'f'
DEST == <<102>>

\* (A frame padded one byte short.)
Frame_short(chunk) ==
  <<SOH, Len(chunk)>> \o chunk
    \o (IF Len(chunk) < UploadChunk - 1
        THEN [i \in 1..(UploadChunk - 1 - Len(chunk)) |-> SP] ELSE <<>>)
\* write_chunk, lines 233-237: marker, length byte, chunk, padding.
Frame(chunk) ==
  <<SOH, Len(chunk)>> \o chunk
    \o (IF Len(chunk) < UploadChunk THEN [i \in 1..(UploadChunk - Len(chunk)) |-> SP] ELSE <<>>)

LogError(e) == errors' = Append(errors, e)

\* write_chunk, lines 231-241, called on its own with the chunk op.content:
\* the frame is written and got_ack's verdict is what it returns.
write_chunk ==
  /\ pc = "write_chunk"
  /\ Write("chunk", Frame(op.content), 0)
  /\ CallAck("done")
  /\ UNCHANGED <<op, G_lines, port, now, late, G_expect, ack, pos, G_dl, G_out, rx, dev, feed, fedAt, faithful,
                 rxlog>>

\* write_file, lines 141-147: writeln("recv()"), then expect('C> ').
wf_start ==
  /\ pc = "wf_start"
  /\ Writeln("recv", RECV_CMD, 0)
  /\ CallExpect(READY, TIMEOUT, "wf_recv")
  /\ UNCHANGED <<op, G_lines, port, now, late, endt, timer, data, res, G_ack, pos, G_dl, G_out, rx, dev, feed, fedAt,
                 faithful, rxlog>>

\* write_file, lines 148-153: give up unless the response ends with 'C> ';
\* else write the destination name and a NUL, and wait for the ACK.
wf_recv ==
  /\ pc = "wf_recv"
  /\ IF ~EndsWith(res, READY)
     THEN /\ LogError("esp_wait")
          /\ Finish
          /\ UNCHANGED <<ackEnd, wire, ev>>
     ELSE /\ Write("name", DEST \o <<NUL>>, 0)
          /\ CallAck("wf_name")
          /\ UNCHANGED errors
  /\ UNCHANGED <<op, G_lines, port, now, late, G_expect, ack, pos, G_dl, raised, localfile, line_number, rx,
                 dev, feed, fedAt, faithful, rxlog>>

\* write_file, lines 153-162: give up unless the name was acknowledged; else
\* read the file and start at pos = 0.
wf_name ==
  /\ pc = "wf_name"
  /\ IF ~GotAck
     THEN /\ LogError("no_ack_name")
          /\ Finish
          /\ UNCHANGED pos
     ELSE /\ pos' = 0
          /\ pc' = "wf_loop"
          /\ UNCHANGED <<stack, errors>>
  /\ UNCHANGED <<op, G_lines, port, now, late, G_expect, G_ack, G_dl, raised, localfile, line_number, G_env,
                 ev, rxlog>>

\* (The loop condition off by one: pos <= len(content).)
WfLoopCond_inclusive == pos <= Len(op.content)
\* The loop condition of line 164.
WfLoopCond == pos < Len(op.content)

\* (A slice one byte short.)
WfChunk_fixed == PySlice(op.content, pos, pos + UploadChunk - 1)
\* The slice of lines 165-169.
WfChunk ==
  LET rest == IF Len(op.content) - pos > UploadChunk THEN UploadChunk ELSE Len(op.content) - pos
  IN PySlice(op.content, pos, pos + rest)

\* write_file, lines 164-170: the next data chunk goes out with write_chunk.
wf_send_chunk ==
  /\ pc = "wf_loop"
  /\ WfLoopCond
  /\ Write("chunk", Frame(WfChunk), 0)
  /\ CallAck("wf_chunk")
  /\ UNCHANGED <<op, G_lines, port, now, late, G_expect, ack, pos, G_dl, G_out, rx, dev, feed, fedAt, faithful, rxlog>>

\* (The result of write_chunk not looked at.)
WfChunkRefused_ignored == FALSE
\* Line 170: if not self.write_chunk(data).
WfChunkRefused == ~GotAck

\* write_file, lines 170-175: a refused chunk ends the transfer after one
\* expect(); an acknowledged one moves pos on.
wf_chunk ==
  /\ pc = "wf_chunk"
  /\ IF WfChunkRefused
     THEN /\ CallExpect(PROMPT, TIMEOUT, "wf_bad")
          /\ UNCHANGED pos
     ELSE /\ pos' = pos + UploadChunk
          /\ pc' = "wf_loop"
          /\ UNCHANGED <<stack, exp, tmo>>
  /\ UNCHANGED <<op, G_lines, port, now, late, endt, timer, data, res, G_ack, G_dl, G_out, G_env, ev, rxlog>>

\* write_file, lines 171-173: log the bad chunk response and return.
wf_bad ==
  /\ pc = "wf_bad"
  /\ LogError("bad_chunk")
  /\ Finish
  /\ UNCHANGED <<op, G_lines, port, now, late, G_expect, G_ack, pos, G_dl, raised, localfile, line_number,
                 G_env, ev, rxlog>>

\* write_file, lines 177-179: the zero-size block.
wf_send_zero ==
  /\ pc = "wf_loop"
  /\ ~WfLoopCond
  /\ Write("chunk", Frame(<<>>), 0)
  /\ CallAck("wf_zero")
  /\ UNCHANGED <<op, G_lines, port, now, late, G_expect, ack, pos, G_dl, G_out, rx, dev, feed, fedAt, faithful, rxlog>>

\* The command of line 188.
ShaCmd == SHA_A \o DEST \o SHA_B

\* write_file, lines 179-188: the result of the last write_chunk is dropped;
\* then the verification the caller asked for starts.
wf_zero ==
  /\ pc = "wf_zero"
  /\ CASE op.verify = "standard" ->
            /\ pc' = "dl_start"
            /\ stack' = <<"wf_std">> \o stack
            /\ UNCHANGED <<exp, tmo, wire, ev>>
       [] op.verify = "sha1" ->
            /\ Writeln("sha", ShaCmd, 0)
            /\ CallExpect(PROMPT, TIMEOUT, "wf_sha")
       [] OTHER ->
            /\ Finish
            /\ UNCHANGED <<exp, tmo, wire, ev>>
  /\ UNCHANGED <<op, G_lines, port, now, late, endt, timer, data, res, G_ack, pos, G_dl, G_out, rx, dev, feed, fedAt,
                 faithful, rxlog>>

\* The comparison of line 184.
StdMismatch == op.content # retval.v

\* write_file, lines 183-185: compare the downloaded data with the content.
wf_std ==
  /\ pc = "wf_std"
  /\ IF StdMismatch THEN LogError("verify_failed") ELSE UNCHANGED errors
  /\ Finish
  /\ UNCHANGED <<op, G_lines, port, now, late, G_expect, G_ack, pos, G_dl, raised, localfile, line_number,
                 G_env, ev, rxlog>>

\* write_file, lines 188-195: the second line of the response against the
\* local digest.  Indexing a missing second line raises IndexError;
\* content.encode() raises UnicodeDecodeError on a byte outside ASCII.
wf_sha ==
  /\ pc = "wf_sha"
  /\ LET lines == SplitLines(res) IN
       IF Len(lines) < 2
       THEN raised' = "IndexError" /\ UNCHANGED errors
       ELSE IF ~IsAscii(op.content)
       THEN raised' = "UnicodeDecodeError" /\ UNCHANGED errors
       ELSE /\ UNCHANGED raised
            /\ IF lines[2] # Sha1Hex(op.content)
               THEN LogError("verify_failed") ELSE UNCHANGED errors
  /\ Finish
  /\ UNCHANGED <<op, G_lines, port, now, late, G_expect, G_ack, pos, G_dl, localfile, line_number, G_env, ev,
                 rxlog>>

\* ----------------------------------------------------------- download_file
\* The command of line 123 for offset n.
DownloadCmd(n) == DL_A \o DEST \o DL_B \o ToDec(n) \o DL_C \o ToDec(DownloadChunk) \o DL_D

\* download_file, lines 119-121.
dl_start ==
  /\ pc = "dl_start"
  /\ bytes_read' = 0
  /\ dl_data' = <<>>
  /\ dl_resp' = <<>>
  /\ pc' = "dl_req"
  /\ UNCHANGED <<stack, op, G_lines, port, now, late, G_expect, G_ack, pos, retval, G_out, G_env, ev, rxlog>>

\* download_file, line 123: exchange(the command for offset bytes_read).
dl_req ==
  /\ pc = "dl_req"
  /\ Writeln("download", DownloadCmd(bytes_read), bytes_read)
  /\ CallExpect(PROMPT, TIMEOUT, "dl_parse")
  /\ UNCHANGED <<op, G_lines, port, now, late, endt, timer, data, res, G_ack, pos, G_dl, G_out, rx, dev, feed, fedAt,
                 faithful, rxlog>>

\* (A parser that makes up the components a response lacks.)
DlParts_tolerant(d) ==
  LET p == Split2(d) IN
  IF Len(p) = 3 THEN p
  ELSE IF Len(p) = 2 THEN <<p[1], <<48>>, p[2]>>
  ELSE <<<<>>, <<48>>, p[1]>>
\* cmd, size, tmp_data = d.split('\n', 2) (line 124): the components, and
\* whether the unpacking into three names succeeds.
DlParts(d) == Split2(d)
DlUnpacks(parts) == Len(parts) = 3

\* tmp_data[0:chunk_size] (line 125)
DlTake(tmp_data) == PySlice(tmp_data, 0, DownloadChunk)

\* (The test with >= for >.)
DlDone_geq(n, size) == n >= size
\* bytes_read > int(size) (line 127)
DlDone(n, size) == n > size

\* (The data returned as accumulated, not cut to size.)
DlResult_untruncated(d, size) == d
\* data[0:int(size)] (line 129)
DlResult(d, size) == PySlice(d, 0, size)

\* download_file, lines 123-130: parse the response d; ValueError when it has
\* no three components or its size is no number; else take up to 256 bytes
\* of payload, and either return the data cut to size or ask again.
dl_parse ==
  /\ pc = "dl_parse"
  /\ dl_resp' = Append(dl_resp, res)
  /\ \E parts \in {DlParts(res)} :
       IF ~DlUnpacks(parts)
       THEN /\ raised' = "ValueError"
            /\ Finish
            /\ UNCHANGED <<bytes_read, dl_data, retval>>
       ELSE \E size \in {ParseInt(parts[2])}, nd \in {dl_data \o DlTake(parts[3])},
               nb \in {bytes_read + DownloadChunk} :
               /\ dl_data' = nd
               /\ bytes_read' = nb
               /\ IF ~size.ok
                  THEN /\ raised' = "ValueError"
                       /\ Finish
                       /\ UNCHANGED retval
                  ELSE IF DlDone(nb, size.val)
                  THEN /\ retval' = [set |-> TRUE, v |-> DlResult(nd, size.val)]
                       /\ pc' = Head(stack)
                       /\ stack' = Tail(stack)
                       /\ UNCHANGED raised
                  ELSE /\ pc' = "dl_req"
                       /\ UNCHANGED <<stack, retval, raised>>
  /\ UNCHANGED <<op, G_lines, port, now, late, G_expect, G_ack, pos, errors, localfile, line_number, G_env,
                 ev, rxlog>>

\* ---------------------------------------------------------------- read_file
\* read_file, lines 132-136: data = self.download_file(filename).
rf_start ==
  /\ pc = "rf_start"
  /\ pc' = "dl_start"
  /\ stack' = <<"rf_write">> \o stack
  /\ UNCHANGED <<op, G_lines, port, now, late, G_expect, G_ack, pos, G_dl, G_out, G_env, ev, rxlog>>

\* read_file, lines 137-138: open(destination, 'w') and f.write(data).
rf_write ==
  /\ pc = "rf_write"
  /\ localfile' = [exists |-> TRUE, bytes |-> retval.v]
  /\ Finish
  /\ UNCHANGED <<op, G_lines, port, now, late, G_expect, G_ack, pos, G_dl, errors, raised, line_number,
                 G_env, ev, rxlog>>

\* ----------------------------------------------------------------- __init__
UartCmd(baud) == UART_A \o ToDec(baud) \o UART_B

\* __init__, lines 33-39: serial.Serial(port, BAUD, timeout=TIMEOUT),
\* setRTS(False), setDTR(False).
ModemCalls ==
  <<Ev("open", "", <<>>, BAUD), Ev("setRTS", "", <<>>, 0), Ev("setDTR", "", <<>>, 0)>>

\* __init__, lines 33-42: open the port at the default rate, deassert RTS and
\* DTR, exchange(';').
init_open ==
  /\ pc = "init_open"
  /\ port' = [timeout |-> TIMEOUT, baudrate |-> BAUD, rts |-> FALSE, dtr |-> FALSE,
              open |-> TRUE]
  /\ WriteAfter(ModemCalls, "nop", NOP_CMD \o <<LF>>, 0)
  /\ CallExpect(PROMPT, TIMEOUT, "init_sync")
  /\ UNCHANGED <<op, G_lines, now, late, endt, timer, data, res, G_ack, pos, G_dl, G_out, rx, dev, feed, fedAt,
                 faithful, rxlog>>

\* __init__, lines 43-44: print the marker, expect it with the prompt.
init_sync ==
  /\ pc = "init_sync"
  /\ Writeln("sync", SYNC_CMD, 0)
  /\ CallExpect(SYNC_EXP, TIMEOUT, "init_baud")
  /\ UNCHANGED <<op, G_lines, port, now, late, endt, timer, data, res, G_ack, pos, G_dl, G_out, rx, dev, feed, fedAt,
                 faithful, rxlog>>

\* (The baud change is made whatever rate was asked for.)
BaudChangeAsked_always == TRUE
\* __init__, line 46: if baud != Uploader.BAUD.
BaudChangeAsked == op.baud # BAUD

\* __init__, lines 46-48 and 58: the result of expect is not looked at; with
\* another baud rate asked for, the device is told to change; else done.
init_baud ==
  /\ pc = "init_baud"
  /\ IF BaudChangeAsked
     THEN /\ Writeln("uart", UartCmd(op.baud), op.baud)
          /\ pc' = "init_switch"
          /\ UNCHANGED <<stack, line_number>>
     ELSE /\ line_number' = 0
          /\ Finish
          /\ UNCHANGED <<wire, ev>>
  /\ UNCHANGED <<op, G_lines, port, now, late, G_expect, G_ack, pos, G_dl, errors, raised, localfile, rx, dev,
                 feed, fedAt, faithful, rxlog>>

\* __init__, lines 51-55: after a sleep shorter than a tick, switch the
\* transport's rate; the first exchange('').
init_switch ==
  /\ pc = "init_switch"
  /\ port' = [port EXCEPT !.baudrate = op.baud]
  /\ WriteAfter(<<Ev("setBaudrate", "", <<>>, op.baud)>>, "empty", <<LF>>, 0)
  /\ CallExpect(PROMPT, TIMEOUT, "init_settle")
  /\ UNCHANGED <<op, G_lines, now, late, endt, timer, data, res, G_ack, pos, G_dl, G_out, rx, dev, feed, fedAt,
                 faithful, rxlog>>

\* __init__, line 56: the second exchange('').
init_settle ==
  /\ pc = "init_settle"
  /\ Writeln("empty", <<>>, 0)
  /\ CallExpect(PROMPT, TIMEOUT, "init_end")
  /\ UNCHANGED <<op, G_lines, port, now, late, endt, timer, data, res, G_ack, pos, G_dl, G_out, rx, dev, feed, fedAt,
                 faithful, rxlog>>

\* __init__, line 58.
init_end ==
  /\ pc = "init_end"
  /\ line_number' = 0
  /\ Finish
  /\ UNCHANGED <<op, G_lines, port, now, late, G_expect, G_ack, pos, G_dl, errors, raised, localfile, G_env,
                 ev, rxlog>>

\* -------------------------------------------------------------------- close
\* (The transport is released before the command is written.)
CloseCalls_reversed ==
  <<Ev("close", "", <<>>, 0), Ev("write", "uart", UartCmd(BAUD) \o <<LF>>, BAUD)>>
\* close, lines 97-98: the baud-restoring command, then self._port.close().
CloseCalls ==
  <<Ev("write", "uart", UartCmd(BAUD) \o <<LF>>, BAUD), Ev("close", "", <<>>, 0)>>

close ==
  /\ pc = "close"
  /\ ev' = ev \o CloseCalls
  /\ wire' = Append(wire, [k |-> "uart", b |-> UartCmd(BAUD) \o <<LF>>, n |-> BAUD, t |-> now])
  /\ port' = [port EXCEPT !.open = FALSE]
  /\ Finish
  /\ UNCHANGED <<op, G_lines, now, late, G_expect, G_ack, pos, G_dl, G_out, rx, dev, feed, fedAt, faithful, rxlog>>

\* -------------------------------------------------------------- admin calls
AdminCmd(name) ==
  CASE name = "file_list" -> LIST_CMD
    [] name = "file_remove" -> REMOVE_A \o DEST \o REMOVE_B
    [] name = "file_format" -> FORMAT_CMD
    [] name = "file_do" -> DO_A \o DEST \o DO_B
    [] name = "node_heap" -> HEAP_CMD
    [] name = "node_restart" -> RESTART_CMD
    [] name = "file_compile" -> COMPILE_A \o DEST \o COMPILE_B

\* file_list (246), file_do (252), file_format (258), node_heap (267),
\* node_restart (273), file_compile (279-280), file_remove (286-287): one
\* exchange.
admin_call ==
  /\ pc = "admin_call"
  /\ Writeln(op.name, AdminCmd(op.name), 0)
  /\ CallExpect(PROMPT, TIMEOUT, "admin_ret")
  /\ UNCHANGED <<op, G_lines, port, now, late, endt, timer, data, res, G_ack, pos, G_dl, G_out, rx, dev, feed, fedAt,
                 faithful, rxlog>>

\* The response is returned; file_format logs an error when it does not
\* contain 'format done' (lines 259-263).
admin_ret ==
  /\ pc = "admin_ret"
  /\ retval' = [set |-> TRUE, v |-> res]
  /\ IF op.name = "file_format" /\ ~Contains(res, FORMAT_DONE)
     THEN LogError("format") ELSE UNCHANGED errors
  /\ Finish
  /\ UNCHANGED <<op, G_lines, port, now, late, G_expect, G_ack, pos, bytes_read, dl_data, dl_resp, raised,
                 localfile, line_number, G_env, ev, rxlog>>


\* ------------------------------------------------------------------ prepare
\* prepare, lines 103-104: the receiver's source with the transport's rate in
\* place of 9600, without \r, cut into lines.
pr_start ==
  /\ pc = "pr_start"
  /\ \E src \in {Replace(SAVE_LUA, DEFAULT_RATE, ToDec(port.baudrate))} :
       \E text \in {Replace(src, <<CR>>, <<>>)} :
         lines_left' = SplitOn(text, LF)
  /\ pc' = "pr_loop"
  /\ UNCHANGED <<stack, op, port, now, late, G_expect, G_ack, pos, last, G_dl, G_out, G_env, ev, rxlog>>

\* line.strip().replace(', ', ',').replace(' = ', '=') (line 107)
CleanLine(line) == Replace(Replace(Strip(line), <<44, 32>>, <<44>>), <<32, 61, 32>>, <<61>>)

\* prepare, lines 106-112: the next line; an empty one is passed over, another
\* is exchanged.
pr_line ==
  /\ pc = "pr_loop"
  /\ lines_left # <<>>
  /\ lines_left' = Tail(lines_left)
  /\ \E line \in {CleanLine(Head(lines_left))} :
       IF line = <<>>
       THEN UNCHANGED <<pc, stack, exp, tmo, wire, ev>>
       ELSE /\ Writeln("line", line, 0)
            /\ CallExpect(PROMPT, TIMEOUT, "pr_check")
  /\ UNCHANGED <<op, port, now, late, endt, timer, data, res, G_ack, pos, last, G_dl, G_out, rx, dev,
                 feed, fedAt, faithful, rxlog>>

\* The test of line 114 on the response d.
SaveLuaFailed(d) == Contains(d, UNEXPECTED) \/ Len(d) > Len(SAVE_LUA) + 10

\* prepare, lines 114-116: a response that fails the test is logged and ends
\* prepare.
pr_check ==
  /\ pc = "pr_check"
  /\ IF SaveLuaFailed(res)
     THEN /\ LogError("save_lua")
          /\ Finish
     ELSE /\ pc' = "pr_loop"
          /\ UNCHANGED <<stack, errors>>
  /\ UNCHANGED <<op, port, now, late, G_expect, G_ack, pos, G_lines, G_dl, raised, localfile,
                 line_number, G_env, ev, rxlog>>

\* prepare: the loop is over.
pr_end ==
  /\ pc = "pr_loop"
  /\ lines_left = <<>>
  /\ Finish
  /\ UNCHANGED <<op, port, now, late, G_expect, G_ack, pos, G_lines, G_dl, G_out, G_env, ev, rxlog>>

\* -------------------------------------------------------------- write_lines
\* write_lines, line 223: data.replace('\r', '').split('\n').
wl_start ==
  /\ pc = "wl_start"
  /\ \E text \in {Replace(op.content, <<CR>>, <<>>)} :
       lines_left' = SplitOn(text, LF)
  /\ pc' = "wl_loop"
  /\ UNCHANGED <<stack, op, port, now, late, G_expect, G_ack, pos, last, G_dl, G_out, G_env, ev, rxlog>>

\* write_lines, lines 225-226: exchange(line), the response dropped.
wl_line ==
  /\ pc = "wl_loop"
  /\ lines_left # <<>>
  /\ lines_left' = Tail(lines_left)
  /\ Writeln("line", Head(lines_left), 0)
  /\ CallExpect(PROMPT, TIMEOUT, "wl_loop")
  /\ UNCHANGED <<op, port, now, late, endt, timer, data, res, G_ack, pos, last, G_dl, G_out, rx, dev,
                 feed, fedAt, faithful, rxlog>>

\* write_lines, line 228.
wl_end ==
  /\ pc = "wl_loop"
  /\ lines_left = <<>>
  /\ Finish
  /\ UNCHANGED <<op, port, now, late, G_expect, G_ack, pos, G_lines, G_dl, G_out, G_env, ev, rxlog>>

\* ---------------------------------------------------------------- exec_file
\* exec_file, lines 201-204: the file (op.content) is opened, res = '> '.
ef_start ==
  /\ pc = "ef_start"
  /\ lines_left' = FileLines(op.content)
  /\ last' = PROMPT
  /\ pc' = "ef_loop"
  /\ UNCHANGED <<stack, op, port, now, late, G_expect, G_ack, pos, G_dl, G_out, G_env, ev, rxlog>>

\* exec_file, lines 204-206: exchange(line.rstrip('\r\n')).
ef_line ==
  /\ pc = "ef_loop"
  /\ lines_left # <<>>
  /\ lines_left' = Tail(lines_left)
  /\ Writeln("line", Head(lines_left), 0)
  /\ CallExpect(PROMPT, TIMEOUT, "ef_ret")
  /\ UNCHANGED <<op, port, now, late, endt, timer, data, res, G_ack, pos, last, G_dl, G_out, rx, dev,
                 feed, fedAt, faithful, rxlog>>

\* exec_file, lines 206-208: retlines = (res + response).splitlines();
\* res = retlines.pop(), which raises IndexError on an empty list.
ef_ret ==
  /\ pc = "ef_ret"
  /\ \E output \in {last \o res} :
     \E retlines \in {SplitLines(output)} :
       IF retlines = <<>>
       THEN /\ raised' = "IndexError"
            /\ Finish
            /\ UNCHANGED last
       ELSE /\ last' = retlines[Len(retlines)]
            /\ pc' = "ef_loop"
            /\ UNCHANGED <<stack, raised>>
  /\ UNCHANGED <<op, port, now, late, G_expect, G_ack, pos, lines_left, G_dl, errors, localfile,
                 line_number, G_env, ev, rxlog>>

\* exec_file, lines 211-213: the loop is over.
ef_end ==
  /\ pc = "ef_loop"
  /\ lines_left = <<>>
  /\ Finish
  /\ UNCHANGED <<op, port, now, late, G_expect, G_ack, pos, G_lines, G_dl, G_out, G_env, ev, rxlog>>
\* --------------------------------------------------------------------- Init
Verifies == {"none", "standard", "sha1"}
Bauds == {BAUD, 115200}
Eols == {<<LF>>, <<CR, LF>>}

\* The targets, timeouts and byte feeds of a stand-alone expect call.
Targets == {PROMPT, <<62>>}
FeedBytes == {62, 32, 97}
Feeds == UNION {[1..n -> FeedBytes] : n \in 0..MaxFeed}

Op(name, content, verify, baud) ==
  [name |-> name, content |-> content, verify |-> verify, baud |-> baud]

\* The chunks handed to a stand-alone write_chunk: every length from 0 to 128.
Chunks == {Gen(n) : n \in 0..UploadChunk} \cup {TrailSp}

\* The calls that are one exchange.
AdminCalls ==
  {"file_list", "file_do", "file_format", "node_heap", "node_restart", "file_compile",
   "file_remove"}

\* The texts handed to exec_file (as the file's content) and to write_lines:
\* "", "a", "a\r\nb", "a\n\nb\n".
Scripts == {<<>>, <<97>>, <<97, 13, 10, 98>>, <<97, 10, 10, 98, 10>>}

Ops ==
  {Op("__init__", <<>>, "none", b) : b \in Bauds}
  \cup {Op("write_chunk", c, "none", BAUD) : c \in Chunks}
  \cup {Op("write_file", c, v, BAUD) : c \in Contents, v \in Verifies}
  \cup {Op(n, <<>>, "none", BAUD) :
          n \in {"download_file", "read_file", "close", "expect"} \cup AdminCalls}
  \cup {Op("prepare", <<>>, "none", b) : b \in Bauds}
  \cup {Op(n, c, "none", BAUD) : n \in {"exec_file", "write_lines"}, c \in Scripts}

StartPc(name) ==
  CASE name = "__init__" -> "init_open"
    [] name = "write_file" -> "wf_start"
    [] name = "download_file" -> "dl_start"
    [] name = "read_file" -> "rf_start"
    [] name = "close" -> "close"
    [] name = "expect" -> "expect"
    [] name = "write_chunk" -> "write_chunk"
    [] name = "prepare" -> "pr_start"
    [] name = "exec_file" -> "ef_start"
    [] name = "write_lines" -> "wl_start"
    [] name \in AdminCalls -> "admin_call"

\* One operation of a session starts.  Before __init__ the port is not open;
\* before any other operation the session stands as __init__ leaves it
\* (prepare: at the rate __init__ was asked for).
InitOp(o) ==
  /\ op = o
  /\ pc = StartPc(o.name)
  /\ stack = IF o.name \in {"download_file", "expect"} THEN <<"done">> ELSE <<>>
  /\ port = [timeout |-> TIMEOUT, baudrate |-> IF o.name = "prepare" THEN o.baud ELSE BAUD,
             rts |-> (o.name = "__init__"), dtr |-> (o.name = "__init__"),
             open |-> (o.name # "__init__")]
  /\ now = 0
  /\ late = FALSE
  /\ IF o.name = "expect"
     THEN exp \in Targets /\ tmo \in 0..MaxTimeout /\ feed \in Feeds
     ELSE exp = <<>> /\ tmo = 0 /\ feed = <<>>
  /\ endt = 0
  /\ timer = 0
  /\ data = <<>>
  /\ res = <<>>
  /\ ack = <<>>
  /\ ackEnd = 0
  /\ pos = 0
  /\ lines_left = <<>>
  /\ last = <<>>
  /\ bytes_read = 0
  /\ dl_data = <<>>
  /\ dl_resp = <<>>
  /\ retval = [set |-> FALSE, v |-> <<>>]
  /\ errors = <<>>
  /\ raised = "none"
  /\ localfile = [exists |-> FALSE, bytes |-> <<>>]
  /\ line_number = IF o.name = "__init__" THEN -1 ELSE 0
  /\ rx = <<>>
  /\ wire = <<>>
  /\ dev \in [remote : IF o.name \in {"download_file", "read_file", "file_list"}
                       THEN Contents ELSE {<<>>},
              eol : IF o.name \in {"expect", "close", "write_chunk"} THEN {<<LF>>} ELSE Eols,
              answers : {<<>>},
              delays : {0}]
  /\ fedAt = <<>>
  /\ faithful = TRUE
  /\ ev = <<>>
  /\ rxlog = <<>>

Init == \E o \in Ops : InitOp(o)

Next ==
  \/ expect_enter \/ expect_check \/ expect_read \/ expect_return
  \/ got_ack
  \/ Tick \/ Moment \/ DevReply \/ Feed
  \/ write_chunk
  \/ wf_start \/ wf_recv \/ wf_name \/ wf_send_chunk \/ wf_chunk \/ wf_bad
  \/ wf_send_zero \/ wf_zero \/ wf_std \/ wf_sha
  \/ dl_start \/ dl_req \/ dl_parse
  \/ rf_start \/ rf_write
  \/ init_open \/ init_sync \/ init_baud \/ init_switch \/ init_settle \/ init_end
  \/ close
  \/ admin_call \/ admin_ret
  \/ pr_start \/ pr_line \/ pr_check \/ pr_end
  \/ wl_start \/ wl_line \/ wl_end
  \/ ef_start \/ ef_line \/ ef_ret \/ ef_end

Spec == Init /\ [][Next]_vars

\* The steps of the host program.
HostStep ==
  \/ expect_enter \/ expect_check \/ expect_read \/ expect_return
  \/ got_ack
  \/ write_chunk
  \/ wf_start \/ wf_recv \/ wf_name \/ wf_send_chunk \/ wf_chunk \/ wf_bad
  \/ wf_send_zero \/ wf_zero \/ wf_std \/ wf_sha
  \/ dl_start \/ dl_req \/ dl_parse
  \/ rf_start \/ rf_write
  \/ init_open \/ init_sync \/ init_baud \/ init_switch \/ init_settle \/ init_end
  \/ close
  \/ admin_call \/ admin_ret
  \/ pr_start \/ pr_line \/ pr_check \/ pr_end
  \/ wl_start \/ wl_line \/ wl_end
  \/ ef_start \/ ef_line \/ ef_ret \/ ef_end

\* The host program keeps running and time keeps advancing while it waits;
\* nothing is assumed of the device.
\* Every operation, on files of up to one full chunk and MaxExtra bytes more.
InitLive ==
  /\ Init
  /\ Len(op.content) <= UploadChunk + MaxExtra
  /\ Len(dev.remote) <= UploadChunk + MaxExtra
SpecLive == InitLive /\ [][Next]_vars /\ WF_vars(HostStep) /\ WF_vars(Tick) /\ WF_vars(Moment)

\* A stand-alone call of expect against a device that sends a feed unasked.
InitExpect == \E o \in Ops : o.name = "expect" /\ InitOp(o)
NextExpect == expect_enter \/ expect_check \/ expect_read \/ expect_return \/ Tick \/ Moment \/ Feed
SpecExpect == InitExpect /\ [][NextExpect]_vars

\* A call of write_file.
InitUpload == \E o \in Ops : o.name = "write_file" /\ InitOp(o)
NextUpload ==
  \/ expect_enter \/ expect_check \/ expect_read \/ expect_return
  \/ got_ack
  \/ Tick \/ Moment \/ DevReply
  \/ wf_start \/ wf_recv \/ wf_name \/ wf_send_chunk \/ wf_chunk \/ wf_bad
  \/ wf_send_zero \/ wf_zero \/ wf_std \/ wf_sha
  \/ dl_start \/ dl_req \/ dl_parse
SpecUpload == InitUpload /\ [][NextUpload]_vars

\* A call of download_file or of read_file.
InitDownload == \E o \in Ops : o.name \in {"download_file", "read_file"} /\ InitOp(o)
NextDownload ==
  \/ expect_enter \/ expect_check \/ expect_read \/ expect_return
  \/ Tick \/ Moment \/ DevReply
  \/ dl_start \/ dl_req \/ dl_parse
  \/ rf_start \/ rf_write
SpecDownload == InitDownload /\ [][NextDownload]_vars

\* Construction, close and the admin calls.
InitSession ==
  \E o \in Ops :
    /\ o.name \in {"__init__", "close"} \cup AdminCalls
    /\ InitOp(o)
NextSession ==
  \/ expect_enter \/ expect_check \/ expect_read \/ expect_return
  \/ Tick \/ Moment \/ DevReply
  \/ init_open \/ init_sync \/ init_baud \/ init_switch \/ init_settle \/ init_end
  \/ close
  \/ admin_call \/ admin_ret
SpecSession == InitSession /\ [][NextSession]_vars

\* ================================================================== claims
\* What the history ev says about the upload.
IsChunkWrite(e) == e.k = "write" /\ e.tag = "chunk"
ChunkWrites == SelectSeq(ev, IsChunkWrite)
IsUpload == op.name = "write_file"
Ended == pc = "done"
Logged(e) == \E i \in 1..Len(errors) : errors[i] = e
\* ceil(L / 128)
NChunks(L) == (L + UploadChunk - 1) \div UploadChunk
\* The i-th 128-byte slice of the file, the last one shorter.
FileSlice(c, i) == SubSeq(c, (i - 1) * UploadChunk + 1, Min(i * UploadChunk, Len(c)))
\* The frame carries exactly the payload p: its length byte and its bytes.
Carries(frame, p) == frame[2] = Len(p) /\ SubSeq(frame, 3, 2 + Len(p)) = p
\* Every ACK read so far returned 0x06.
AllAcked == \A j \in 1..Len(ev) : ev[j].k = "ack" => ev[j].b = <<ACK>>
\* No read gave up: every expect matched, every ACK read got a byte.
NoReadTimedOut ==
  \A j \in 1..Len(ev) :
    /\ ev[j].k = "expect" => ev[j].n = 1
    /\ ev[j].k = "ack" => ev[j].b # <<>>

\* C1: the frames write_file has written are, in order, the consecutive
\* 128-byte slices of the file and then one zero-length terminator, never
\* more; each frame was written right after an ACK byte 0x06 was read in
\* answer to the write before it (the name for the first frame, the previous
\* frame otherwise); and a write_file that ended without giving up has
\* written all ceil(L/128) data frames and the terminator.
C1_FramesInOrder ==
  IsUpload =>
    LET w == ChunkWrites
        n == NChunks(Len(op.content))
    IN /\ Len(w) <= n + 1
       /\ \A i \in 1..Len(w) :
            Carries(w[i].b, IF i <= n THEN FileSlice(op.content, i) ELSE <<>>)
       /\ \A j \in 1..Len(ev) :
            IsChunkWrite(ev[j]) =>
              /\ j >= 3
              /\ ev[j - 1].k = "ack" /\ ev[j - 1].b = <<ACK>>
              /\ ev[j - 2].k = "write"
              /\ ev[j - 2].tag = (IF \E i \in 1..(j - 1) : IsChunkWrite(ev[i])
                                  THEN "chunk" ELSE "name")
       /\ (Ended /\ errors = <<>> /\ raised = "none") => Len(w) = n + 1

\* C1 witness: a file of exactly two full chunks went out as two data frames
\* and the terminator, and write_file ended without an error.
C1_Witness ==
  /\ IsUpload /\ Ended /\ errors = <<>> /\ AllAcked
  /\ Len(op.content) = 2 * UploadChunk
  /\ Len(ChunkWrites) = 3

\* The reads of write_file that make it give up: the response to recv() does
\* not end with 'C> ', or the byte after the name or after a data frame is
\* not 0x06 or is missing.
UploadFailedAt(j) ==
  /\ j >= 2
  /\ ev[j - 1].k = "write"
  /\ \/ ev[j - 1].tag = "recv" /\ ev[j].k = "expect" /\ ~EndsWith(ev[j].b, READY)
     \/ ev[j - 1].tag = "name" /\ ev[j].k = "ack" /\ ev[j].b # <<ACK>>
     \/ ev[j - 1].tag = "chunk" /\ ev[j - 1].b[2] > 0 /\ ev[j].k = "ack" /\ ev[j].b # <<ACK>>

\* C2: once write_file has met a missing ready prompt, or a missing or wrong
\* acknowledgement of the name or of a data frame, it writes nothing more (no
\* data frame, no terminator, no frame again, no verification command) and
\* never enters its verification step.
C2_AbortStopsTransfer ==
  IsUpload =>
    \A j \in 1..Len(ev) :
      UploadFailedAt(j) =>
        /\ \A i \in (j + 1)..Len(ev) : ev[i].k # "write"
        /\ pc \notin {"wf_loop", "wf_zero", "wf_std", "wf_sha", "dl_start", "dl_req", "dl_parse"}
        /\ ~Logged("verify_failed")

\* C2 witness: the second data frame was refused and write_file has returned.
C2_Witness ==
  /\ IsUpload /\ Ended
  /\ Len(ChunkWrites) = 2
  /\ UploadFailedAt(Len(ev) - 1)
  /\ errors = <<"bad_chunk">>

\* The expect of the sync marker returned without the marker and the prompt.
SyncFailed ==
  \E j \in 2..Len(ev) :
    /\ ev[j - 1].k = "write" /\ ev[j - 1].tag = "sync"
    /\ ev[j].k = "expect" /\ ~EndsWith(ev[j].b, SYNC_EXP)

\* C3: when the marker followed by the prompt was not seen before the
\* deadline, construction does not go on to the baud-change step and does
\* not complete as a usable session.
C3_SyncFailureIsFatal ==
  (op.name = "__init__" /\ SyncFailed) =>
    /\ pc \notin {"init_switch", "init_settle", "init_end"}
    /\ ~(Ended /\ raised = "none")

\* C4: against a device that answers every chunk request at once with the
\* echo, the size line, the requested bytes and the prompt, download_file
\* returns the remote file's content.
C4_DownloadReturnsFile ==
  (op.name = "download_file" /\ Ended /\ faithful) =>
    /\ raised = "none"
    /\ retval.set
    /\ Len(retval.v) = Len(dev.remote)
    /\ retval.v = dev.remote

\* C5: when write_file, download_file, read_file or an admin call has
\* returned and none of its reads gave up, no unread device output is left.
C5_NothingLeftUnread ==
  (/\ op.name \in {"write_file", "download_file", "read_file",
                   "file_list", "file_remove", "file_format"}
   /\ Ended
   /\ NoReadTimedOut)
  => rx = <<>>

\* The upload reached the sha1 verification: the shafile command was written.
ShaAsked == \E j \in 1..Len(ev) : ev[j].k = "write" /\ ev[j].tag = "sha"

\* C6: with verify='sha1', after a fully acknowledged upload and a shafile
\* response with a second line, write_file ends without a verification error
\* when that line equals the SHA-1 hex digest of the file bytes, and logs a
\* verification failure when it differs.
C6_Sha1Verdict ==
  (IsUpload /\ op.verify = "sha1" /\ Ended /\ AllAcked /\ ShaAsked
     /\ Len(SplitLines(res)) >= 2) =>
    IF SplitLines(res)[2] = Sha1Hex(op.content)
    THEN errors = <<>> /\ raised = "none"
    ELSE errors = <<"verify_failed">> /\ raised = "none"

\* C7: with verify='standard', after a fully acknowledged upload, a
\* verification failure is logged exactly when the downloaded bytes differ
\* from the local content; a device that stored the bytes unchanged and
\* answers faithfully gets no verification failure.
C7_StandardVerdict ==
  (IsUpload /\ op.verify = "standard" /\ Ended /\ AllAcked) =>
    /\ retval.set => (Logged("verify_failed") <=> retval.v # op.content)
    /\ (faithful /\ dev.remote = op.content) => (errors = <<>> /\ raised = "none")

\* Everything the device has sent so far in a stand-alone expect call.
Sent == rxlog \o rx
\* The target is complete in what the device sent before the deadline.
ArrivedInTime ==
  \E k \in Len(exp)..Len(Sent) :
    /\ SubSeq(Sent, k - Len(exp) + 1, k) = exp
    /\ (k = 0 \/ fedAt[k].t < endt \/ (fedAt[k].t = endt /\ ~fedAt[k].late))
\* The target is complete in what the device sent a second or more before
\* the deadline.
ArrivedEarly ==
  \E k \in Len(exp)..Len(Sent) :
    /\ SubSeq(Sent, k - Len(exp) + 1, k) = exp
    /\ (k = 0 \/ fedAt[k].t < endt)
\* The deadline of the expect call has passed.
DeadlinePassed == now > endt \/ (now = endt /\ late)

\* C8: expect returns every byte it read; when the target arrives before the
\* deadline the result ends with the target and expect returns not later
\* than in the second of the deadline; when the result does not end with the
\* target, expect has returned only after the deadline, and the target was in
\* no part of what was read.
C8_ExpectOutcome ==
  (op.name = "expect" /\ Ended) =>
    /\ res = rxlog
    /\ ArrivedInTime => EndsWith(res, exp)
    /\ EndsWith(res, exp) => (now <= endt /\ Contains(Sent, exp))
    /\ ~EndsWith(res, exp) => (DeadlinePassed /\ ~Contains(res, exp))

\* What expect does keep: it returns every byte it read, a target that
\* arrived a second or more before the deadline is matched, and without a
\* match it returns only after the deadline.
ExpectOutcomeEarly ==
  (op.name = "expect" /\ Ended) =>
    /\ res = rxlog
    /\ ArrivedEarly => EndsWith(res, exp)
    /\ EndsWith(res, exp) => (now <= endt /\ Contains(Sent, exp))
    /\ ~EndsWith(res, exp) => (DeadlinePassed /\ ~Contains(res, exp))

\* A target that was waiting in full when expect was called is not matched.
WaitingTargetMissed ==
  /\ op.name = "expect" /\ Ended
  /\ exp # <<>> /\ ArrivedInTime /\ \A k \in 1..Len(fedAt) : fedAt[k].t = 0 /\ ~fedAt[k].late
  /\ ~EndsWith(res, exp)

\* The size and payload of a response of the form echo, size line, payload.
WellFormed(d) == Len(Split2(d)) = 3 /\ ParseInt(Split2(d)[2]).ok
SizeOf(d) == ParseInt(Split2(d)[2]).val
PayloadOf(d) == Split2(d)[3]
\* Every response of this download has the same size and the same payload,
\* and the payload is at least size bytes long.
SameResponse ==
  /\ dl_resp # <<>>
  /\ \A i \in 1..Len(dl_resp) :
       /\ WellFormed(dl_resp[i])
       /\ SizeOf(dl_resp[i]) = SizeOf(dl_resp[1])
       /\ PayloadOf(dl_resp[i]) = PayloadOf(dl_resp[1])
  /\ SizeOf(dl_resp[1]) >= 0
  /\ Len(PayloadOf(dl_resp[1])) >= SizeOf(dl_resp[1])
DownloadReturned ==
  op.name = "download_file" /\ Ended /\ raised = "none" /\ retval.set

\* C9 as stated: for responses echo, size line, payload with the payload at
\* least size bytes long, the result is the first size bytes of the payload,
\* for every size.
C9_FirstSizeBytes_AnySize ==
  (DownloadReturned /\ SameResponse) =>
    retval.v = SubSeq(PayloadOf(dl_resp[1]), 1, SizeOf(dl_resp[1]))

\* C9 as amended: the same for every size up to the chunk size of 256.
C9_FirstSizeBytes ==
  (DownloadReturned /\ SameResponse /\ SizeOf(dl_resp[1]) <= DownloadChunk) =>
    retval.v = SubSeq(PayloadOf(dl_resp[1]), 1, SizeOf(dl_resp[1]))

\* C9 witness: a size of exactly 256, two requests answered with the same
\* payload, which is longer than the size.
C9_Witness ==
  /\ DownloadReturned /\ SameResponse
  /\ SizeOf(dl_resp[1]) = DownloadChunk
  /\ Len(dl_resp) = 2
  /\ Len(PayloadOf(dl_resp[1])) > DownloadChunk

IsDownloadWrite(e) == e.k = "write" /\ e.tag = "download"

\* C10: a response without the three components, or with a size line that
\* is no number, is the last one: the download has ended with ValueError at
\* that response, no further request was written, download_file returned
\* nothing and read_file did not create the destination file.
C10_MalformedEndsDownload ==
  (op.name \in {"download_file", "read_file"}) =>
    \A i \in 1..Len(dl_resp) :
      ~WellFormed(dl_resp[i]) =>
        /\ i = Len(dl_resp)
        /\ Len(SelectSeq(ev, IsDownloadWrite)) = i
        /\ Ended /\ raised = "ValueError"
        /\ ~retval.set
        /\ ~localfile.exists

\* C10 witness: read_file got a well-formed first response and a malformed
\* second one.
C10_Witness ==
  /\ op.name = "read_file" /\ Ended /\ raised = "ValueError"
  /\ Len(dl_resp) = 2
  /\ WellFormed(dl_resp[1]) /\ ~WellFormed(dl_resp[2])


\* ------------------------------------------------------------------ C11
\* The layout of a frame: 130 bytes, the marker 0x01, the length byte n, the n
\* payload bytes, then 128 - n spaces.
FrameLaidOut(b, chunk) ==
  /\ Len(b) = 130
  /\ b[1] = 1
  /\ b[2] = Len(chunk)
  /\ \A i \in 1..Len(chunk) : b[2 + i] = chunk[i]
  /\ \A i \in (3 + Len(chunk))..130 : b[i] = 32

\* The terminator: 0x01, 0x00 and 128 spaces.
Terminator == <<1, 0>> \o [i \in 1..128 |-> 32]

\* The chunk that the i-th frame of the operation carries.
ChunkOf(i) ==
  IF op.name = "write_chunk" THEN op.content
  ELSE IF i <= NChunks(Len(op.content)) THEN FileSlice(op.content, i) ELSE <<>>

\* C11: every frame written, for a payload of any length n from 0 to 128, is
\* exactly 130 bytes: 0x01, the length byte n, the n payload bytes and 128 - n
\* spaces; the frame of an empty payload, and so the terminator of every
\* upload, is the constant 0x01, 0x00, 128 spaces.
C11_FrameLayout ==
  \A i \in 1..Len(ChunkWrites) :
    /\ Len(ChunkOf(i)) \in 0..128
    /\ FrameLaidOut(ChunkWrites[i].b, ChunkOf(i))
    /\ (ChunkOf(i) = <<>> => ChunkWrites[i].b = Terminator)

\* An upload of 129 bytes has written a full frame, a frame of one byte and the
\* terminator.
C11_Witness ==
  /\ IsUpload /\ Len(op.content) = 129
  /\ Len(ChunkWrites) = 3
  /\ ChunkWrites[1].b[2] = 128 /\ ChunkWrites[2].b[2] = 1
  /\ ChunkWrites[3].b = Terminator

\* A stand-alone write_chunk has written a frame with 77 payload bytes.
C11_WitnessAnyLength ==
  /\ op.name = "write_chunk" /\ Len(op.content) = 77
  /\ Len(ChunkWrites) = 1 /\ Ended

\* ------------------------------------------------------------------ C12
\* The payloads of the frames fs, each cut by its own length byte, put together
\* up to the first frame of length zero.
RECURSIVE CutAndJoin(_)
CutAndJoin(fs) ==
  IF fs = <<>> \/ Head(fs).b[2] = 0 THEN <<>>
  ELSE SubSeq(Head(fs).b, 3, 2 + Head(fs).b[2]) \o CutAndJoin(Tail(fs))

\* The same frames cut to the padded length of 128 instead.
RECURSIVE CutPaddedAndJoin(_)
CutPaddedAndJoin(fs) ==
  IF fs = <<>> \/ Head(fs).b[2] = 0 THEN <<>>
  ELSE SubSeq(Head(fs).b, 3, 130) \o CutPaddedAndJoin(Tail(fs))

\* write_file has written the terminator.
TerminatorWritten ==
  IsUpload /\ \E i \in 1..Len(ChunkWrites) : ChunkWrites[i].b[2] = 0

\* C12: once write_file has written the terminator, the payloads of the data
\* frames it wrote, each cut by its length byte and put together in order, are
\* the source byte for byte, trailing spaces of the source included.
C12_Reassembly ==
  TerminatorWritten => CutAndJoin(ChunkWrites) = op.content

\* The source "ab  " ends with spaces: its frames rebuild it when cut by the
\* length byte, and do not when cut to the padded length.
C12_Witness ==
  /\ TerminatorWritten /\ Ended
  /\ op.content = TrailSp
  /\ CutAndJoin(ChunkWrites) = TrailSp
  /\ CutPaddedAndJoin(ChunkWrites) # TrailSp

\* ------------------------------------------------------------------ C13
IsInit == op.name = "__init__"

\* The first seven transport calls of a construction, by kind and tag.
HandshakeOrder ==
  <<[k |-> "open", tag |-> ""], [k |-> "setRTS", tag |-> ""], [k |-> "setDTR", tag |-> ""],
    [k |-> "write", tag |-> "nop"], [k |-> "expect", tag |-> ""],
    [k |-> "write", tag |-> "sync"], [k |-> "expect", tag |-> ""]>>

\* The device answered the marker command at once with the marker and the
\* prompt.
SyncAnswered ==
  \E i \in 1..Len(dev.answers) : dev.answers[i].k = "sync" /\ dev.answers[i].ok

\* The device answered the marker command with the marker and the prompt
\* before the deadline of the wait for them.
SyncAnsweredInTime ==
  \E i \in 1..Len(dev.answers) :
    dev.answers[i].k = "sync" /\ dev.answers[i].right /\ dev.answers[i].timely

\* The wait for the marker ended with a match: the session is SYNCED.
Synced == Len(ev) >= 7 /\ ev[7].k = "expect" /\ ev[7].n = 1

\* The first seven transport calls of a construction are those of
\* HandshakeOrder, with both modem lines deasserted, the no-op line and the
\* marker command as written, and a wait of 5 s for marker and prompt.
HandshakeCalls ==
  /\ \A j \in 1..Min(Len(ev), 7) :
       /\ ev[j].k = HandshakeOrder[j].k
       /\ ev[j].tag = HandshakeOrder[j].tag
  /\ Len(ev) >= 2 => ev[2].n = 0 /\ ~port.rts
  /\ Len(ev) >= 3 => ev[3].n = 0 /\ ~port.dtr
  /\ Len(ev) >= 4 => ev[4].b = <<59, 10>>
  /\ Len(ev) >= 6 => ev[6].b = SYNC_CMD \o <<10>>
  /\ (pc \in {"expect", "expect_loop", "expect_read"} /\ Len(ev) = 6) => exp = SYNC_EXP /\ tmo = 5

\* C13: construction calls the transport in this order: open, RTS and DTR
\* deasserted, the no-op line ";" written and the prompt awaited, the marker
\* command written and the marker with the prompt awaited for 5 s.  Whatever
\* the no-op exchange returned, the marker command is what follows it.  When
\* the device answers the marker command with marker and prompt before the
\* deadline, the wait matches and construction ends without an exception.
C13_HandshakeOrder ==
  IsInit =>
    /\ HandshakeCalls
    /\ (SyncAnsweredInTime /\ Len(ev) >= 7) => Synced
    /\ (SyncAnsweredInTime /\ Ended) => Synced /\ raised = "none" /\ line_number = 0

\* What construction does keep: the order of the calls, and a match of the
\* wait when the device answers the marker command at once.
HandshakeOrderAtOnce ==
  IsInit =>
    /\ HandshakeCalls
    /\ (SyncAnswered /\ Len(ev) >= 7) => Synced
    /\ (SyncAnswered /\ Ended) => Synced /\ raised = "none" /\ line_number = 0

\* A construction has ended without a match of the marker, although the
\* device sent marker and prompt before the deadline.
TimelyMarkerMissed ==
  /\ IsInit /\ Ended /\ SyncAnsweredInTime /\ ~Synced
  /\ raised = "none"

\* ------------------------------------------------------------------ C14
\* The line that sets the device's serial rate back to 9600.
RestoreLine == UART_A \o <<57, 54, 48, 48>> \o UART_B \o <<10>>

\* C14: close writes the command that restores 9600 baud and only then
\* releases the transport; it makes no other transport call, writes nothing
\* after the release and reads nothing.
C14_CloseOrder ==
  op.name = "close" =>
    /\ rxlog = <<>>
    /\ ~Ended => ev = <<>> /\ port.open
    /\ Ended =>
         /\ Len(ev) = 2
         /\ ev[1].k = "write" /\ ev[1].b = RestoreLine
         /\ ev[2].k = "close"
         /\ ~port.open
         /\ now = 0

\* close has returned at once; the device took the command afterwards.
C14_Witness ==
  /\ op.name = "close" /\ Ended
  /\ Len(ev) = 2 /\ ev[2].k = "close"
  /\ Len(dev.answers) = 1 /\ dev.answers[1].k = "uart"

\* ------------------------------------------------------------------ C16
\* The transport calls of a construction after the handshake.
AfterHandshake == SubSeq(ev, 8, Len(ev))

\* The transport calls of the baud change, by kind and tag.
BaudChangeOrder ==
  <<[k |-> "write", tag |-> "uart"], [k |-> "setBaudrate", tag |-> ""],
    [k |-> "write", tag |-> "empty"], [k |-> "expect", tag |-> ""],
    [k |-> "write", tag |-> "empty"], [k |-> "expect", tag |-> ""]>>

\* The transport's rate has been switched.
Switched == \E j \in 1..Len(ev) : ev[j].k = "setBaudrate"

\* C16: a construction asked for another rate than 9600 writes the
\* reconfiguration command while the transport is at 9600, switches the
\* transport's rate only after that write, and then makes exactly two empty
\* exchanges; a construction asked for 9600 writes no reconfiguration command
\* and leaves the rate alone.
C16_BaudChange ==
  IsInit =>
    /\ port.baudrate = (IF Switched THEN op.baud ELSE 9600)
    /\ IF op.baud = 9600
       THEN Len(AfterHandshake) = 0
       ELSE /\ Len(AfterHandshake) <= 6
            /\ \A j \in 1..Len(AfterHandshake) :
                 /\ AfterHandshake[j].k = BaudChangeOrder[j].k
                 /\ AfterHandshake[j].tag = BaudChangeOrder[j].tag
            /\ Len(AfterHandshake) >= 1 =>
                 AfterHandshake[1].b
                   = UART_A \o <<49, 49, 53, 50, 48, 48>> \o UART_B \o <<10>>
            /\ Len(AfterHandshake) >= 2 => AfterHandshake[2].n = op.baud
            /\ \A j \in {3, 5} : Len(AfterHandshake) >= j => AfterHandshake[j].b = <<10>>
            /\ Ended => Len(AfterHandshake) = 6

\* A construction at 115200 has ended after the switch and both empty exchanges.
C16_Witness ==
  /\ IsInit /\ Ended /\ op.baud = 115200
  /\ Len(AfterHandshake) = 6 /\ port.baudrate = 115200

\* A construction at 9600 has ended after the handshake alone.
C16_WitnessDefault ==
  /\ IsInit /\ Ended /\ op.baud = 9600
  /\ Len(ev) = 7 /\ port.baudrate = 9600

\* ------------------------------------------------------------------ C17
DownloadWrites == SelectSeq(ev, IsDownloadWrite)

\* The request line for the 256 bytes at offset off of the file "f".
RequestLine(off) ==
  DL_A \o <<102>> \o DL_B \o ToDec(off) \o DL_C \o <<50, 53, 54>> \o DL_D \o <<10>>

\* Every response so far is well formed and reports the size N.
ConstantSize(N) ==
  \A i \in 1..Len(dl_resp) : WellFormed(dl_resp[i]) /\ SizeOf(dl_resp[i]) = N

\* C17: download_file asks at the offsets 0, 256, 512, ..., always for 256
\* bytes, goes on after a response only when offset + 256 is at most the size
\* that response reports, and returns at the first response for which
\* offset + 256 exceeds it; with every response reporting the same size N it
\* makes exactly floor(N / 256) + 1 requests.
C17_RequestOffsets ==
  /\ \A i \in 1..Len(DownloadWrites) :
       /\ DownloadWrites[i].n = (i - 1) * 256
       /\ DownloadWrites[i].b = RequestLine((i - 1) * 256)
  /\ Len(dl_resp) <= Len(DownloadWrites)
  /\ \A i \in 1..Len(dl_resp) :
       WellFormed(dl_resp[i]) =>
         /\ i < Len(DownloadWrites) => i * 256 <= SizeOf(dl_resp[i])
         /\ i * 256 > SizeOf(dl_resp[i]) =>
              /\ retval.set
              /\ Len(DownloadWrites) = i
              /\ Len(dl_resp) = i
  /\ \A i \in 1..(Len(dl_resp) - 1) : WellFormed(dl_resp[i])
  /\ (retval.set /\ dl_resp # <<>>) =>
       /\ WellFormed(dl_resp[Len(dl_resp)])
       /\ Len(dl_resp) * 256 > SizeOf(dl_resp[Len(dl_resp)])
       /\ \A N \in {SizeOf(dl_resp[1])} :
            ConstantSize(N) => Len(DownloadWrites) = (N \div 256) + 1

\* A file of exactly 256 bytes took two requests, the second at the end of
\* the file.
C17_Witness ==
  /\ op.name = "download_file" /\ Ended /\ retval.set
  /\ ConstantSize(256)
  /\ Len(DownloadWrites) = 2 /\ DownloadWrites[2].n = 256
  /\ Len(retval.v) = 256

\* An empty file took one request.
C17_WitnessEmpty ==
  /\ op.name = "download_file" /\ Ended /\ retval.set
  /\ ConstantSize(0) /\ Len(DownloadWrites) = 1

\* ------------------------------------------------------------------ C18
\* C18: outside the polling loop of expect the transport's read timeout is the
\* session's 5 s, after a wait that matched as after one that timed out;
\* inside the loop the saved value is 5 s; every ACK read starts with the
\* timeout at 5 s and gives up 5 s after it started.
C18_TimeoutRestored ==
  /\ pc \in {"expect_loop", "expect_read"} => timer = 5 /\ port.timeout = 0
  /\ pc \notin {"expect_loop", "expect_read"} => port.timeout = 5
  /\ pc = "got_ack" => ackEnd - now \in 0..5
  /\ \A j \in 1..Len(ev) :
       (ev[j].k = "ack" /\ ev[j].b = <<>>) => now >= 5

\* An upload has ended after an ACK read, a wait that matched and a wait that
\* timed out, with the timeout at 5 s.
C18_Witness ==
  /\ IsUpload /\ Ended /\ port.timeout = 5
  /\ \E j \in 1..Len(ev) : ev[j].k = "ack"
  /\ \E j \in 1..Len(ev) : ev[j].k = "expect" /\ ev[j].n = 1
  /\ \E j \in 1..Len(ev) : ev[j].k = "expect" /\ ev[j].n = 0

\* ------------------------------------------------------------------ C19
\* The ACK read after the terminator of an upload returned something else than
\* 0x06, or nothing.
TerminatorRefused ==
  /\ IsUpload
  /\ \E j \in 2..Len(ev) :
       /\ IsChunkWrite(ev[j - 1]) /\ ev[j - 1].b[2] = 0
       /\ ev[j].k = "ack" /\ ev[j].b # <<6>>

\* write_file has gone on to the verification.
Verifying ==
  \/ pc \in {"dl_start", "dl_req", "dl_parse", "wf_std", "wf_sha"}
  \/ \E j \in 1..Len(ev) : ev[j].k = "write" /\ ev[j].tag \in {"download", "sha"}

\* C19: an upload whose terminator was not acknowledged with 0x06 does not go
\* on to the verification and does not end without an error: the missing or
\* wrong ACK of the terminator is a protocol error like that of a data frame.
C19_TerminatorAckRequired ==
  TerminatorRefused => ~Verifying /\ (Ended => errors # <<>>)

\* ------------------------------------------------------------------ C15
\* A response of this download reported a larger size than the one before it.
SizeGrew ==
  \E i \in 2..Len(dl_resp) :
    /\ WellFormed(dl_resp[i - 1]) /\ WellFormed(dl_resp[i])
    /\ SizeOf(dl_resp[i]) > SizeOf(dl_resp[i - 1])

\* With the host running and time advancing, every operation returns against
\* every device of this model.  (C15 asks for more: the devices here raise the
\* reported size of a download at most MaxGrowth times.)
ReturnsWithinModel == <>Ended

\* A download made one request more for every response that raised the size.
GrowthFollowed ==
  /\ op.name = "download_file" /\ Ended /\ retval.set
  /\ SizeGrew
  /\ Len(dl_resp) = MaxGrowth + 1
====
